---- MODULE Spec2Model ----
(***************************************************************************)
(* A model of pynini/lib/rule_cascade.py: the RuleCascade object, its     *)
(* rule list, and the six rewrite functions.  Weighted automata are       *)
(* modelled over the tropical semiring: a rule is a one-state transducer  *)
(* given by its arc list, a lattice is the set of its weighted paths.     *)
(***************************************************************************)
EXTENDS Integers, Sequences, FiniteSets, TLC

\* ------------------------------------------------------------------ bounds
MaxLen == 1          \* longest raw string passed to a rewrite function
MaxNames == 2        \* longest iterable of names passed to set_rules
MaxNShortest == 2    \* largest nshortest passed to top_rewrites

\* --------------------------------------------------------------- alphabet
Chars == {"a", "b"}
NO_STATE_ID == -1

\* None, or a symbol table; None selects the default ("byte") token type.
TokenTypes == {"None", "symtab"}

ByteLabel == [c \in Chars |-> IF c = "a" THEN 1 ELSE 2]
SymbolTable == [c \in Chars |-> IF c = "a" THEN 2 ELSE 1]
Labels == {1, 2}

TokenLabel(token_type, c) ==
  IF token_type = "symtab" THEN SymbolTable[c] ELSE ByteLabel[c]

TokenChar(token_type, l) ==
  CHOOSE c \in Chars : TokenLabel(token_type, c) = l

\* string -> label sequence, and back
Encode(token_type, str) == [i \in 1..Len(str) |-> TokenLabel(token_type, str[i])]
Decode(token_type, labels) == [i \in 1..Len(labels) |-> TokenChar(token_type, labels[i])]

RECURSIVE StringsUpTo(_)
StringsUpTo(n) ==
  IF n = 0 THEN {<<>>}
  ELSE LET S == StringsUpTo(n - 1)
       IN S \cup {Append(s, c) : s \in {t \in S : Len(t) = n - 1}, c \in Chars}

\* ------------------------------------------------------------------ errors
NoError == [msg |-> "", arg |-> 0]
Error(msg, arg) == [msg |-> msg, arg |-> arg]
NoRulesRequested == Error("No rules requested", 0)
CannotFindRule(rule) == Error("Cannot find rule", rule)
CompositionFailure == Error("Composition failure", 0)
MultipleTopRewrites == Error("Multiple top rewrites found", 0)

\* --------------------------------------------------------------- the FAR
Arc(il, ol, w) == [il |-> il, ol |-> ol, w |-> w]

\* The archive: rule names are integers (keys are kept in order), name 2 is
\* absent.  Arcs are stored unsorted.
FarKeys == {1, 3}
Names == 1..3
FarContents ==
  [k \in FarKeys |->
     IF k = 1 THEN << Arc(2, 2, 0), Arc(1, 2, 0), Arc(1, 1, 0) >>
              ELSE << Arc(2, 2, 1), Arc(2, 1, 1), Arc(2, 2, 0) >>]
FarDone == 0

\* Far(far_path, "r"): a reader positioned on the first key.
FarOpen == [pos |-> 1]

\* Far.find(key): moves to the first entry whose key is >= key and tells
\* whether the key matched.
FarFind(far, key) ==
  LET above == {k \in FarKeys : k >= key}
      pos == IF above = {} THEN FarDone
             ELSE CHOOSE k \in above : \A j \in above : k <= j
  IN [far |-> [pos |-> pos], found |-> key \in FarKeys]

\* Far.get_fst(): the relation at the current position.
FarGetFst(far) == FarContents[far.pos]

\* ---------------------------------------------------------------- arcsort
ILabelCompare(a, b) == a.il < b.il \/ (a.il = b.il /\ a.ol < b.ol)

RECURSIVE InsertArc(_, _)
InsertArc(sorted, a) ==
  IF sorted = <<>> THEN <<a>>
  ELSE IF ILabelCompare(a, Head(sorted)) THEN <<a>> \o sorted
  ELSE <<Head(sorted)>> \o InsertArc(Tail(sorted), a)

RECURSIVE ArcSort(_)
ArcSort(fst) ==
  IF fst = <<>> THEN <<>>
  ELSE InsertArc(ArcSort(SubSeq(fst, 1, Len(fst) - 1)), fst[Len(fst)])

\* ------------------------------------------------------------ trace steps
Step(call, arg) == [call |-> call, arg |-> arg]

\* -------------------------------------------------------------- set_rules
RECURSIVE set_rules_loop(_, _, _, _, _)
set_rules_loop(far, rules, names, i, steps) ==
  IF i > Len(names)
  THEN [self |-> [far |-> far, rules |-> rules], raised |-> NoError,
        steps |-> steps]
  ELSE LET f == FarFind(far, names[i])
           st == Append(steps, Step("find", names[i]))
       IN IF f.found
          THEN set_rules_loop(f.far,
                              Append(rules, ArcSort(FarGetFst(f.far))),
                              names, i + 1, Append(st, Step("append", names[i])))
          ELSE [self |-> [far |-> f.far, rules |-> rules],
                raised |-> CannotFindRule(names[i]), steps |-> st]

\* A loop that skips an unresolved name and reports the last one at the end.
RECURSIVE set_rules_keep_going_loop(_, _, _, _, _, _)
set_rules_keep_going_loop(far, rules, names, i, steps, raised) ==
  IF i > Len(names)
  THEN [self |-> [far |-> far, rules |-> rules], raised |-> raised,
        steps |-> steps]
  ELSE LET f == FarFind(far, names[i])
           st == Append(steps, Step("find", names[i]))
       IN IF f.found
          THEN set_rules_keep_going_loop(f.far,
                 Append(rules, ArcSort(FarGetFst(f.far))), names, i + 1,
                 Append(st, Step("append", names[i])), raised)
          ELSE set_rules_keep_going_loop(f.far, rules, names, i + 1, st,
                                         CannotFindRule(names[i]))

set_rules_keep_going(self, names) ==
  set_rules_keep_going_loop(self.far, <<>>, names, 1, <<Step("clear", 0)>>,
                            NoError)

\* set_rules without the clear().
set_rules_no_clear(self, names) ==
  set_rules_loop(self.far, self.rules, names, 1, <<>>)

\* set_rules that puts the old list back when a name does not resolve.
set_rules_rollback(self, names) ==
  LET r == set_rules_loop(self.far, <<>>, names, 1, <<Step("clear", 0)>>)
  IN IF r.raised # NoError THEN [r EXCEPT !.self.rules = self.rules] ELSE r

set_rules(self, names) ==
  set_rules_loop(self.far, <<>>, names, 1, <<Step("clear", 0)>>)

\* ------------------------------------------------- automaton primitives
\* An FstLike value is a raw string or an automaton (the set of its paths).
Raw(str) == [isFst |-> FALSE, str |-> str, paths |-> {}]
Fst(paths) == [isFst |-> TRUE, str |-> <<>>, paths |-> paths]

Path(labels, w) == [str |-> labels, w |-> w]

\* fst.start(): an automaton without paths has no start state.
Start(paths) == IF paths = {} THEN NO_STATE_ID ELSE 0

\* pynini.accep(string, token_type=...)
accep(str, token_type) == Fst({Path(Encode(token_type, str), 0)})

\* String arguments are compiled under the token type in force.
Compile(fstlike, token_type) ==
  IF fstlike.isFst THEN fstlike ELSE accep(fstlike.str, token_type)

\* The paths of a one-state rule transducer whose input side is `labels`.
RECURSIVE RulePaths(_, _)
RulePaths(rule, labels) ==
  IF labels = <<>> THEN {Path(<<>>, 0)}
  ELSE LET arcs == {rule[i] : i \in {j \in DOMAIN rule : rule[j].il = Head(labels)}}
           rest == RulePaths(rule, Tail(labels))
       IN {Path(<<a.ol>> \o r.str, a.w + r.w) : a \in arcs, r \in rest}

\* pynini.compose(acceptor, rule): paths with input side, output side, weight.
Compose(paths, rule) ==
  UNION {{[istr |-> p.str, str |-> q.str, w |-> p.w + q.w] :
            q \in RulePaths(rule, p.str)} : p \in paths}

\* fst.project("output").rmepsilon()
ProjectOutput(tpaths) == {Path(t.str, t.w) : t \in tpaths}

\* pynini.intersect(lattice, ostring, compose_filter="sequence")
Intersect(paths, other) ==
  UNION {{Path(p.str, p.w + q.w) : q \in {y \in other : y.str = p.str}} :
           p \in paths}

MinWeight(paths) == CHOOSE w \in {p.w : p \in paths} : \A p \in paths : w <= p.w

\* pynini.determinize(lattice, nstate=..., weight=threshold): one path per
\* string carrying the least weight; with the threshold at semiring One only
\* the paths of least weight survive.
Determinize(paths, prune) ==
  LET merged == {Path(p.str, MinWeight({q \in paths : q.str = p.str})) : p \in paths}
  IN IF prune /\ merged # {} THEN {p \in merged : p.w = MinWeight(merged)}
     ELSE merged

StrLess(s, t) ==
  \E i \in 1..(Len(s) + 1) :
     /\ i <= Len(t)
     /\ \A j \in 1..(i - 1) : j <= Len(s) /\ s[j] = t[j]
     /\ (i = Len(s) + 1 \/ s[i] < t[i])

\* The order in which the path iterator visits a deterministic automaton.
RECURSIVE PathIterator(_)
PathIterator(paths) ==
  IF paths = {} THEN <<>>
  ELSE LET first == CHOOSE p \in paths : \A q \in paths \ {p} : StrLess(p.str, q.str)
       IN <<first>> \o PathIterator(paths \ {first})

\* pynini.shortestpath(lattice, nshortest=n, unique=True): every order in
\* which the search may deliver the n best distinct strings.
ShortestPaths(paths, n) ==
  LET merged == Determinize(paths, FALSE)
      k == IF n < Cardinality(merged) THEN n ELSE Cardinality(merged)
  IN {q \in [1..k -> merged] :
        /\ \A i, j \in 1..k : i < j => (q[i] # q[j] /\ q[i].w <= q[j].w)
        /\ \A m \in merged : (\A i \in 1..k : q[i] # m) =>
                                \A i \in 1..k : q[i].w <= m.w}

\* ------------------------------------------------------ pynini.lib.rewrite
\* rewrite.rewrite_lattice(string, rule, token_type)
rewrite_rewrite_lattice(string, rule, token_type) ==
  LET lattice == Compose(Compile(string, token_type).paths, rule)
  IN IF Start(lattice) = NO_STATE_ID
     THEN [raised |-> CompositionFailure, lattice |-> Fst({})]
     ELSE [raised |-> NoError, lattice |-> Fst(ProjectOutput(lattice))]

\* rewrite.lattice_to_dfa(lattice, optimal_only, state_multiplier)
lattice_to_dfa(lattice, optimal_only) ==
  PathIterator(Determinize(lattice.paths, optimal_only))

\* rewrite.lattice_to_nshortest(lattice, nshortest)
lattice_to_nshortest(lattice, nshortest) == ShortestPaths(lattice.paths, nshortest)

\* rewrite.lattice_to_strings(lattice, token_type)
lattice_to_strings(pathseq, token_type) ==
  [i \in 1..Len(pathseq) |-> Decode(token_type, pathseq[i].str)]

\* rewrite.lattice_to_top_string(lattice, token_type): a best path, any of
\* them when several tie.
lattice_to_top_string(lattice, token_type) ==
  {Decode(token_type, p.str) :
     p \in {q \in lattice.paths : q.w = MinWeight(lattice.paths)}}

\* rewrite.lattice_to_one_top_string(lattice, token_type)
lattice_to_one_top_string(pathseq, token_type) ==
  IF Len(pathseq) > 1
  THEN [raised |-> MultipleTopRewrites, value |-> "None"]
  ELSE [raised |-> NoError, value |-> Decode(token_type, pathseq[1].str)]

\* ------------------------------------------------------- _rewrite_lattice
RECURSIVE rewrite_lattice_loop(_, _, _, _, _)
rewrite_lattice_loop(self, lattice, i, token_type, steps) ==
  IF i > Len(self.rules)
  THEN [self |-> self, raised |-> NoError,
        lattice |-> IF ~lattice.isFst THEN accep(lattice.str, token_type)
                    ELSE lattice,
        steps |-> steps]
  ELSE LET r == rewrite_rewrite_lattice(lattice, self.rules[i], token_type)
           st == Append(steps, Step("compose", i))
       IN IF r.raised # NoError
          THEN [self |-> self, raised |-> r.raised, lattice |-> Fst({}),
                steps |-> st]
          ELSE rewrite_lattice_loop(self, r.lattice, i + 1, token_type, st)

\* _rewrite_lattice without the emptiness check.
_rewrite_lattice_no_check(self, string, token_type) ==
  rewrite_lattice_loop(self, string, 1, token_type, <<>>)

\* _rewrite_lattice whose loop starts one rule late.
_rewrite_lattice_from_second(self, string, token_type) ==
  IF self.rules = <<>>
  THEN [self |-> self, raised |-> NoRulesRequested, lattice |-> Fst({}),
        steps |-> <<>>]
  ELSE rewrite_lattice_loop(self, string, 2, token_type, <<>>)

\* _rewrite_lattice that consumes self.rules while it applies them.
_rewrite_lattice_consuming(self, string, token_type) ==
  IF self.rules = <<>>
  THEN [self |-> self, raised |-> NoRulesRequested, lattice |-> Fst({}),
        steps |-> <<>>]
  ELSE [rewrite_lattice_loop(self, string, 1, token_type, <<>>)
          EXCEPT !.self.rules = <<>>]

_rewrite_lattice(self, string, token_type) ==
  IF self.rules = <<>>
  THEN [self |-> self, raised |-> NoRulesRequested, lattice |-> Fst({}),
        steps |-> <<>>]
  ELSE rewrite_lattice_loop(self, string, 1, token_type, <<>>)

\* ------------------------------------------------------ rewrite functions
\* Each function yields the set of outcomes the call can have.
Raised(l) ==
  [self |-> l.self, raised |-> l.raised, returned |-> FALSE, value |-> "None",
   steps |-> l.steps, lattice |-> l.lattice.paths]

Returned(l, value, calls) ==
  [self |-> l.self, raised |-> NoError, returned |-> TRUE, value |-> value,
   steps |-> l.steps \o calls, lattice |-> l.lattice.paths]

\* matches compiling the output string under the input token type.
matches_input_token_type(self, istring, ostring, input_token_type, output_token_type) ==
  LET l == _rewrite_lattice(self, istring, input_token_type)
      lattice == Intersect(l.lattice.paths,
                           Compile(ostring, input_token_type).paths)
  IN IF l.raised # NoError THEN {Raised(l)}
     ELSE {Returned(l, Start(lattice) # NO_STATE_ID, <<Step("intersect", 0)>>)}

matches(self, istring, ostring, input_token_type, output_token_type) ==
  LET l == _rewrite_lattice(self, istring, input_token_type)
      lattice == IF output_token_type = "None"
                 THEN Intersect(l.lattice.paths, Compile(ostring, "None").paths)
                 ELSE Intersect(l.lattice.paths,
                                Compile(ostring, output_token_type).paths)
  IN IF l.raised # NoError THEN {Raised(l)}
     ELSE {Returned(l, Start(lattice) # NO_STATE_ID, <<Step("intersect", 0)>>)}

rewrites(self, string, input_token_type, output_token_type) ==
  LET l == _rewrite_lattice(self, string, input_token_type)
  IN IF l.raised # NoError THEN {Raised(l)}
     ELSE {Returned(l, lattice_to_strings(lattice_to_dfa(l.lattice, FALSE),
                                          output_token_type),
                    <<Step("determinize", 0), Step("paths", 0)>>)}

top_rewrites(self, string, nshortest, input_token_type, output_token_type) ==
  LET l == _rewrite_lattice(self, string, input_token_type)
  IN IF l.raised # NoError THEN {Raised(l)}
     ELSE {Returned(l, lattice_to_strings(q, output_token_type),
                    <<Step("shortestpath", nshortest), Step("paths", 0)>>) :
             q \in lattice_to_nshortest(l.lattice, nshortest)}

top_rewrite(self, string, input_token_type, output_token_type) ==
  LET l == _rewrite_lattice(self, string, input_token_type)
  IN IF l.raised # NoError THEN {Raised(l)}
     ELSE {Returned(l, s, <<Step("shortestpath", 1), Step("paths", 0)>>) :
             s \in lattice_to_top_string(l.lattice, output_token_type)}

\* one_top_rewrite asking lattice_to_dfa for every string, not the optimal ones.
one_top_rewrite_not_optimal(self, string, input_token_type, output_token_type) ==
  LET l == _rewrite_lattice(self, string, input_token_type)
      r == lattice_to_one_top_string(lattice_to_dfa(l.lattice, FALSE),
                                     output_token_type)
      calls == <<Step("determinize", 0), Step("paths", 0)>>
  IN IF l.raised # NoError THEN {Raised(l)}
     ELSE IF r.raised # NoError
          THEN {[Raised(l) EXCEPT !.raised = r.raised, !.steps = l.steps \o calls]}
          ELSE {Returned(l, r.value, calls)}

one_top_rewrite(self, string, input_token_type, output_token_type) ==
  LET l == _rewrite_lattice(self, string, input_token_type)
      r == lattice_to_one_top_string(lattice_to_dfa(l.lattice, TRUE),
                                     output_token_type)
      calls == <<Step("determinize", 0), Step("paths", 0)>>
  IN IF l.raised # NoError THEN {Raised(l)}
     ELSE IF r.raised # NoError
          THEN {[Raised(l) EXCEPT !.raised = r.raised, !.steps = l.steps \o calls]}
          ELSE {Returned(l, r.value, calls)}

optimal_rewrites(self, string, input_token_type, output_token_type) ==
  LET l == _rewrite_lattice(self, string, input_token_type)
  IN IF l.raised # NoError THEN {Raised(l)}
     ELSE {Returned(l, lattice_to_strings(lattice_to_dfa(l.lattice, TRUE),
                                          output_token_type),
                    <<Step("determinize", 0), Step("paths", 0)>>)}

\* ------------------------------------------------------------------ state
VARIABLES
  far,         \* self.far: the archive reader
  rules,       \* self.rules: the arc-sorted relations, in application order
  op,          \* the method called last
  args,        \* its arguments
  result,      \* what it raised or returned
  steps,       \* the library calls it made, in order
  lattice,     \* the lattice _rewrite_lattice handed to it
  configured   \* some set_rules call has returned normally

vars == <<far, rules, op, args, result, steps, lattice, configured>>

RewriteOps == {"matches", "rewrites", "top_rewrites", "top_rewrite",
               "one_top_rewrite", "optimal_rewrites"}

RECURSIVE NameSeqsUpTo(_)
NameSeqsUpTo(n) ==
  IF n = 0 THEN {<<>>}
  ELSE LET S == NameSeqsUpTo(n - 1)
       IN S \cup {Append(s, k) : s \in {t \in S : Len(t) = n - 1}, k \in Names}

NameSeqs == NameSeqsUpTo(MaxNames)

PrebuiltLattice == {Path(<<1>>, 0), Path(<<2>>, 1)}
Inputs == {Raw(s) : s \in StringsUpTo(MaxLen)} \cup {Fst(PrebuiltLattice)}
Outputs == {Raw(s) : s \in StringsUpTo(MaxLen)}

NoArgs ==
  [names |-> <<>>, string |-> Raw(<<>>), ostring |-> Raw(<<>>),
   input_token_type |-> "None", output_token_type |-> "None", nshortest |-> 0]

Self == [far |-> far, rules |-> rules]

\* RuleCascade(far_path)
Init ==
  /\ far = FarOpen
  /\ rules = <<>>
  /\ op = "__init__"
  /\ args = NoArgs
  /\ result = [raised |-> NoError, returned |-> TRUE, value |-> "None"]
  /\ steps = <<>>
  /\ lattice = {}
  /\ configured = FALSE

Called(name, a, r) ==
  /\ far' = r.self.far
  /\ rules' = r.self.rules
  /\ op' = name
  /\ args' = a
  /\ result' = [raised |-> r.raised, returned |-> r.returned, value |-> r.value]
  /\ steps' = r.steps
  /\ lattice' = r.lattice

SetRules ==
  \E names \in NameSeqs :
    LET r == set_rules(Self, names)
    IN /\ Called("set_rules", [NoArgs EXCEPT !.names = names],
                 [self |-> r.self, raised |-> r.raised,
                  returned |-> r.raised = NoError, value |-> "None",
                  steps |-> r.steps, lattice |-> {}])
       /\ configured' = (configured \/ r.raised = NoError)

Matches ==
  \E i \in Inputs, o \in Outputs, it \in TokenTypes, ot \in TokenTypes :
    \E r \in matches(Self, i, o, it, ot) :
      /\ Called("matches",
                [NoArgs EXCEPT !.string = i, !.ostring = o,
                               !.input_token_type = it, !.output_token_type = ot], r)
      /\ UNCHANGED configured

Rewrites ==
  \E i \in Inputs, it \in TokenTypes, ot \in TokenTypes :
    \E r \in rewrites(Self, i, it, ot) :
      /\ Called("rewrites",
                [NoArgs EXCEPT !.string = i, !.input_token_type = it,
                               !.output_token_type = ot], r)
      /\ UNCHANGED configured

TopRewrites ==
  \E i \in Inputs, n \in 1..MaxNShortest, it \in TokenTypes, ot \in TokenTypes :
    \E r \in top_rewrites(Self, i, n, it, ot) :
      /\ Called("top_rewrites",
                [NoArgs EXCEPT !.string = i, !.nshortest = n,
                               !.input_token_type = it, !.output_token_type = ot], r)
      /\ UNCHANGED configured

TopRewrite ==
  \E i \in Inputs, it \in TokenTypes, ot \in TokenTypes :
    \E r \in top_rewrite(Self, i, it, ot) :
      /\ Called("top_rewrite",
                [NoArgs EXCEPT !.string = i, !.input_token_type = it,
                               !.output_token_type = ot], r)
      /\ UNCHANGED configured

OneTopRewrite ==
  \E i \in Inputs, it \in TokenTypes, ot \in TokenTypes :
    \E r \in one_top_rewrite(Self, i, it, ot) :
      /\ Called("one_top_rewrite",
                [NoArgs EXCEPT !.string = i, !.input_token_type = it,
                               !.output_token_type = ot], r)
      /\ UNCHANGED configured

OptimalRewrites ==
  \E i \in Inputs, it \in TokenTypes, ot \in TokenTypes :
    \E r \in optimal_rewrites(Self, i, it, ot) :
      /\ Called("optimal_rewrites",
                [NoArgs EXCEPT !.string = i, !.input_token_type = it,
                               !.output_token_type = ot], r)
      /\ UNCHANGED configured

Next ==
  \/ SetRules
  \/ Matches
  \/ Rewrites
  \/ TopRewrites
  \/ TopRewrite
  \/ OneTopRewrite
  \/ OptimalRewrites

Spec == Init /\ [][Next]_vars

\* ------------------------------------------------------------ properties
CallsOf(st, call) == SelectSeq(st, LAMBDA x : x.call = call)
ArgsOf(st) == [i \in 1..Len(st) |-> st[i].arg]

IsILabelSorted(fst) ==
  \A i, j \in DOMAIN fst : i < j => fst[i].il <= fst[j].il

Count(fst, a) == Cardinality({i \in DOMAIN fst : fst[i] = a})

\* r holds the arcs stored under `name`, sorted on input label.
IsSortedRelationOf(r, name) ==
  /\ name \in FarKeys
  /\ IsILabelSorted(r)
  /\ Len(r) = Len(FarContents[name])
  /\ \A i \in DOMAIN r : Count(r, r[i]) = Count(FarContents[name], r[i])

Unresolved(names) == {j \in DOMAIN names : names[j] \notin FarKeys}
FirstUnresolved(names) ==
  CHOOSE j \in Unresolved(names) : \A i \in Unresolved(names) : j <= i

\* lattice_0 = input, lattice_i = compose(lattice_{i-1}, r[i])
RECURSIVE LatticeK(_, _, _)
LatticeK(input, r, k) ==
  IF k = 0 THEN input
  ELSE ProjectOutput(Compose(LatticeK(input, r, k - 1), r[k]))

ComposeSteps(k) == [i \in 1..k |-> Step("compose", i)]

\* Two or more distinct output strings share the least weight.
Tied(paths, token_type) ==
  \E p, q \in paths :
     /\ Decode(token_type, p.str) # Decode(token_type, q.str)
     /\ p.w = MinWeight(paths)
     /\ q.w = MinWeight(paths)

\* C1: a rewrite function called on an empty rule list raises "No rules
\* requested" before it composes or extracts anything, and returns nothing.
C1_NoRulesRequested ==
  [][(op' \in RewriteOps /\ rules = <<>>) =>
        /\ result'.raised = NoRulesRequested
        /\ ~result'.returned
        /\ steps' = <<>>
        /\ lattice' = {}]_vars

C1_Witness ==
  /\ op = "one_top_rewrite"
  /\ rules = <<>>
  /\ result.raised = NoRulesRequested
  /\ args.string = Raw(<<"a">>)

\* C2: when some name is absent from the archive, set_rules raises "Cannot
\* find rule" for the first such name; the names after it are neither looked
\* up nor appended.
C2_FirstUnresolvedName ==
  (op = "set_rules" /\ Unresolved(args.names) # {}) =>
     LET j == FirstUnresolved(args.names)
     IN /\ result.raised = CannotFindRule(args.names[j])
        /\ ~result.returned
        /\ ArgsOf(CallsOf(steps, "find")) = SubSeq(args.names, 1, j)
        /\ ArgsOf(CallsOf(steps, "append")) = SubSeq(args.names, 1, j - 1)
        /\ Len(rules) = j - 1

C2_Witness ==
  /\ op = "set_rules"
  /\ Len(args.names) = 2
  /\ Unresolved(args.names) = {1}
  /\ result.raised = CannotFindRule(args.names[1])
  /\ rules = <<>>

\* C3: when every name resolves, set_rules returns and the rule list is,
\* entry by entry, the input-label-sorted relation of the names, whatever
\* the list held before.
C3_RuleListReplaced ==
  (op = "set_rules" /\ Unresolved(args.names) = {}) =>
     /\ result.returned
     /\ Len(rules) = Len(args.names)
     /\ \A i \in DOMAIN rules : IsSortedRelationOf(rules[i], args.names[i])

C3_Witness ==
  /\ op = "set_rules"
  /\ result.returned
  /\ args.names = <<3, 3>>
  /\ configured

\* C4: every set_rules call installs the full configuration it was asked
\* for, or leaves the list as it was, or leaves it empty.
C4_AtomicReplace ==
  [][op' = "set_rules" =>
       \/ rules' = rules
       \/ rules' = <<>>
       \/ /\ Len(rules') = Len(args'.names)
          /\ \A i \in DOMAIN rules' :
               IsSortedRelationOf(rules'[i], args'.names[i])]_vars

\* C5: a rewrite function called while no set_rules call has returned
\* normally raises "No rules requested".
C5_NoRulesBeforeConfigured ==
  (op \in RewriteOps /\ ~configured) => result.raised = NoRulesRequested

\* C6: the lattice a rewrite function works on is the left-to-right fold of
\* compose over the rule list, every rule applied once and in order; a
\* composition that comes out empty stops the fold there.
C6_LeftFold ==
  (op \in RewriteOps /\ rules # <<>>) =>
     LET input == Compile(args.string, args.input_token_type).paths
         k == Len(rules)
         composes == CallsOf(steps, "compose")
         empty == {j \in 1..k : LatticeK(input, rules, j) = {}}
     IN IF empty = {}
        THEN /\ result.raised # CompositionFailure
             /\ composes = ComposeSteps(k)
             /\ lattice = LatticeK(input, rules, k)
        ELSE /\ result.raised = CompositionFailure
             /\ composes =
                  ComposeSteps(CHOOSE j \in empty : \A i \in empty : j <= i)

C6_Witness ==
  /\ op = "optimal_rewrites"
  /\ Len(rules) = 2
  /\ rules[1] # rules[2]
  /\ result.returned
  /\ Cardinality(lattice) = 3

C9_PrefixAfterFailure ==
  [][/\ (op' = "set_rules" /\ ~result'.returned) =>
          LET j == FirstUnresolved(args'.names)
          IN /\ Len(rules') = j - 1
             /\ \A i \in 1..(j - 1) :
                  IsSortedRelationOf(rules'[i], args'.names[i])
     /\ (op = "set_rules" /\ ~result.returned /\ rules # <<>>
           /\ op' \in RewriteOps) =>
          /\ result'.raised # NoRulesRequested
          /\ steps' # <<>>
          /\ steps'[1] = Step("compose", 1)
          /\ rules' = rules]_vars

C9_Witness ==
  /\ op = "set_rules"
  /\ ~result.returned
  /\ Len(args.names) = 2
  /\ Len(rules) = 1

\* C10: a rewrite function, whether it returns or raises, leaves the rule
\* list and the archive reader as they were.
C10_RewritesKeepRules ==
  [][op' \in RewriteOps => (rules' = rules /\ far' = far)]_vars

C10_Witness ==
  /\ op = "top_rewrites"
  /\ rules # <<>>
  /\ result.returned
  /\ Len(result.value) = 2

====
